---- MODULE Spec2Model ----
(***************************************************************************)
(* A model of weather_max.py: the two temperature-change detectors         *)
(* (notify_temperature_change, notify_climate_temperature_change), their   *)
(* history dictionaries, send_notification, the climate report parser      *)
(* fetch_climate_report and the polling loop main.                         *)
(*                                                                         *)
(* Three specifications share the state:                                   *)
(*   Spec       the detectors invoked in any order with any reading, for   *)
(*              the first city, while the entries of the others stand by;  *)
(*   MainSpec   the polling loop of main driving the fetches and detectors;*)
(*   ParseSpec  fetch_climate_report applied to bounded report texts.      *)
(***************************************************************************)
EXTENDS Integers, Sequences, FiniteSets, TLC

VARIABLES
    now,                          \* the UTC clock, datetime.now(timezone.utc), in seconds
    temperature_history,          \* city -> entry (ASOS detector)
    climate_temperature_history,  \* city -> entry (climate report detector)
    call,                         \* the last detector invocation and what it did
    ncalls,                       \* number of detector invocations made so far
    prevReading,                  \* detector -> city -> last valid reading passed
    stored,                       \* detector -> city -> values ever stored as temp
    lastSent,                     \* detector -> city -> value of the last notification
    pc,                           \* position of main
    idx,                          \* main: index of the city of the for loop
    cycle,                        \* main: number of completed cycles
    city_temperatures,            \* main: the result of fetch_all_cities
    climate_notification,         \* main: annotation returned by the climate detector
    report,                       \* the text fetch_climate_report downloaded
    parsed                        \* what fetch_climate_report returned

vars == <<now, temperature_history, climate_temperature_history, call, ncalls,
          prevReading, stored, lastSent, pc, idx, cycle, city_temperatures,
          climate_notification, report, parsed>>

-----------------------------------------------------------------------------
(* Bounds *)

MaxCalls == 5        \* detector invocations explored by Spec
MaxTime == 320       \* the clock stops advancing here
ShortWait == 150     \* seconds that may pass between two invocations
LongWait == 160      \* a longer wait; ShortWait + LongWait exceeds the window
MaxCycles == 2       \* polling cycles explored by MainSpec
MaxLines == 2        \* lines of a climate report explored by ParseSpec

(* Program constants *)

WindowMinutes == 5       \* timedelta(minutes=5)
SecondsPerMinute == 60   \* time_diff.total_seconds() // 60
SleepSeconds == 30       \* time.sleep(30)

CityOrder == <<"Austin, TX", "Denver, CO">>
Cities == {CityOrder[i] : i \in 1..Len(CityOrder)}

-----------------------------------------------------------------------------
(* Python values: t is the type, n the number, s the characters of a str *)

PyNone == [t |-> "NoneType", n |-> 0, s |-> <<>>]
PyFloat(x) == [t |-> "float", n |-> x, s |-> <<>>]
PyInt(x) == [t |-> "int", n |-> x, s |-> <<>>]
PyStr(chars) == [t |-> "str", n |-> 0, s |-> chars]
datetime(secs) == [t |-> "datetime", n |-> secs, s |-> <<>>]

\* isinstance(v, (int, float))
IsIntOrFloat(v) == v.t \in {"int", "float"}

\* a == b on the values a history field can hold
PyEq(a, b) ==
    IF IsIntOrFloat(a) /\ IsIntOrFloat(b) THEN a.n = b.n
    ELSE a.t = b.t /\ a.n = b.n /\ a.s = b.s

Digits == <<"0", "1", "2", "3", "4", "5", "6", "7", "8", "9">>
IsDigitChar(c) == \E i \in 1..10 : Digits[i] = c
DigitValue(c) == (CHOOSE i \in 1..10 : Digits[i] = c) - 1

\* str.isdigit()
IsDigit(chars) == Len(chars) > 0 /\ \A i \in 1..Len(chars) : IsDigitChar(chars[i])

RECURSIVE DecimalValue(_)
DecimalValue(chars) ==
    IF chars = <<>> THEN 0
    ELSE 10 * DecimalValue(SubSeq(chars, 1, Len(chars) - 1)) + DigitValue(chars[Len(chars)])

\* a variant that reads a missing value as 0, as int(v or 0) would
IntOrError_NoneAsZero(v) ==
    CASE v.t = "int" -> v
      [] v.t = "float" -> PyInt(v.n)
      [] v.t = "str" /\ IsDigit(v.s) -> PyInt(DecimalValue(v.s))
      [] OTHER -> PyInt(0)

\* int(v) inside try/except (ValueError, TypeError): the int, or PyNone when it raises
IntOrError(v) ==
    CASE v.t = "int" -> v
      [] v.t = "float" -> PyInt(v.n)
      [] v.t = "str" ->
            IF IsDigit(v.s) THEN PyInt(DecimalValue(v.s))
            ELSE IF Len(v.s) > 1 /\ v.s[1] \in {"-", "+"} /\ IsDigit(Tail(v.s))
                 THEN PyInt((IF v.s[1] = "-" THEN -1 ELSE 1) * DecimalValue(Tail(v.s)))
                 ELSE PyNone
      [] OTHER -> PyNone

-----------------------------------------------------------------------------
(* The history dictionaries *)

EmptyEntry == [temp |-> PyNone, timestamp |-> PyNone, last_notified_temp |-> PyNone]
EmptyHistory == [city \in Cities |-> EmptyEntry]

EmptyStr == <<>>

\* timedelta(minutes=5), in seconds
Window == WindowMinutes * SecondsPerMinute

\* int(time_diff.total_seconds() // 60)
WholeMinutes(time_diff) == time_diff \div SecondsPerMinute

\* a variant that gates on the truncated whole minutes
WithinWindow_Minutes(time_diff) == WholeMinutes(time_diff) <= WindowMinutes

\* a variant that excludes the end of the window
WithinWindow_Strict(time_diff) == time_diff < Window

\* time_diff <= timedelta(minutes=5)
WithinWindow(time_diff) == time_diff <= Window

\* a variant that takes an equal reading for an increase
Increased_OrEqual(current_temp, previous_temp) ==
    previous_temp # PyNone /\ current_temp.n >= previous_temp.n

\* current_temp > previous_temp, guarded by previous_temp is not None
Increased(current_temp, previous_temp) ==
    previous_temp # PyNone /\ current_temp.n > previous_temp.n

\* a variant without the check against last_notified_temp
NotYetNotified_Always(current_temp, last_notified_temp) == TRUE

\* current_temp != last_notified_temp
NotYetNotified(current_temp, last_notified_temp) == ~PyEq(current_temp, last_notified_temp)

(***************************************************************************)
(* send_notification(city, message): the platform call either returns or   *)
(* raises (notify-send missing, the notification client failing); nothing  *)
(* in send_notification catches that, so the error leaves the function.    *)
(***************************************************************************)
Deliveries == {"returns", "raises"}
send_notification(delivery) == delivery = "raises"

(***************************************************************************)
(* notify_temperature_change(city, current_temp). t1 is the clock read at  *)
(* line 303, t2 the clock read at line 319. The result holds the new       *)
(* dictionary, the messages passed to send_notification, the returned      *)
(* annotation and whether an exception left the function.                  *)
(***************************************************************************)
notify_temperature_change(history, city, current_temp, t1, t2, delivery) ==
    LET previous_data == history[city]
        previous_temp == previous_data.temp
        previous_timestamp == previous_data.timestamp
        last_notified_temp == previous_data.last_notified_temp
        risen == Increased(current_temp, previous_temp)
        time_diff == t1 - previous_timestamp.n
        recent == risen /\ WithinWindow(time_diff)
        increase_suffix ==
            IF recent THEN <<"^ from", previous_temp.n, WholeMinutes(time_diff)>>
            ELSE EmptyStr
        notify == recent /\ NotYetNotified(current_temp, last_notified_temp)
        message == <<"ASOS", city, current_temp.n, previous_temp.n>>
    IN  IF ~IsIntOrFloat(current_temp)
        THEN [history |-> history, sent |-> <<>>, ret |-> EmptyStr,
              raised |-> FALSE, end |-> t1]
        ELSE IF notify /\ send_notification(delivery)
        THEN [history |-> history, sent |-> <<message>>, ret |-> EmptyStr,
              raised |-> TRUE, end |-> t1]
        ELSE [history |-> [history EXCEPT ![city] =
                  [temp |-> current_temp,
                   timestamp |-> datetime(IF notify THEN t2 ELSE t1),
                   last_notified_temp |-> IF notify THEN current_temp ELSE @.last_notified_temp]],
              sent |-> IF notify THEN <<message>> ELSE <<>>,
              ret |-> increase_suffix,
              raised |-> FALSE,
              end |-> IF notify THEN t2 ELSE t1]

(***************************************************************************)
(* notify_climate_temperature_change(city, current_temp). The notifying    *)
(* branch returns at line 349, before the update of lines 351-353.         *)
(***************************************************************************)
notify_climate_temperature_change(history, city, current_temp, t1, t2, delivery) ==
    LET previous_data == history[city]
        previous_temp == previous_data.temp
        previous_timestamp == previous_data.timestamp
        last_notified_temp == previous_data.last_notified_temp
        current_temp_val == IntOrError(current_temp)
        candidate == /\ Increased(current_temp_val, previous_temp)
                     /\ NotYetNotified(current_temp_val, last_notified_temp)
        time_diff == t1 - previous_timestamp.n
        notify == candidate /\ WithinWindow(time_diff)
        message == <<"Climate", city, current_temp_val.n, previous_temp.n>>
    IN  IF current_temp_val = PyNone
        THEN [history |-> history, sent |-> <<>>, ret |-> EmptyStr,
              raised |-> FALSE, end |-> t1]
        ELSE IF notify /\ send_notification(delivery)
        THEN [history |-> history, sent |-> <<message>>, ret |-> EmptyStr,
              raised |-> TRUE, end |-> t1]
        ELSE IF notify
        THEN [history |-> [history EXCEPT ![city].last_notified_temp = current_temp_val],
              sent |-> <<message>>,
              ret |-> <<"Climate: ^ from", previous_temp.n, WholeMinutes(time_diff)>>,
              raised |-> FALSE, end |-> t2]
        ELSE [history |-> [history EXCEPT ![city] =
                  [temp |-> current_temp_val, timestamp |-> datetime(t1),
                   last_notified_temp |-> @.last_notified_temp]],
              sent |-> <<>>, ret |-> EmptyStr, raised |-> FALSE, end |-> t1]

-----------------------------------------------------------------------------
(* fetch_climate_report: a report is a sequence of lines, a line the        *)
(* sequence of its whitespace-separated tokens (line.split()), a token a    *)
(* sequence of characters.                                                  *)

LowerCase == <<"a", "b", "c", "d", "e", "f", "g", "h", "i", "j", "k", "l", "m",
               "n", "o", "p", "q", "r", "s", "t", "u", "v", "w", "x", "y", "z">>
UpperCase == <<"A", "B", "C", "D", "E", "F", "G", "H", "I", "J", "K", "L", "M",
               "N", "O", "P", "Q", "R", "S", "T", "U", "V", "W", "X", "Y", "Z">>

UpperChar(c) ==
    IF \E i \in 1..26 : LowerCase[i] = c
    THEN UpperCase[CHOOSE i \in 1..26 : LowerCase[i] = c]
    ELSE c

\* str.upper()
Upper(chars) == [i \in 1..Len(chars) |-> UpperChar(chars[i])]

MAXIMUM == <<"M", "A", "X", "I", "M", "U", "M">>

\* needle in chars
Contains(chars, needle) ==
    \E i \in 1..(Len(chars) - Len(needle) + 1) :
        SubSeq(chars, i, i + Len(needle) - 1) = needle

\* "MAXIMUM" in line.upper(): the word has no blank, so it lies inside one token
MentionsMaximum(line) == \E i \in 1..Len(line) : Contains(Upper(line[i]), MAXIMUM)

\* len(parts) > 3 and parts[0].upper() == "MAXIMUM" and parts[1].isdigit()
MaximumLine(parts) ==
    /\ Len(parts) > 3
    /\ Upper(parts[1]) = MAXIMUM
    /\ IsDigit(parts[2])

\* re.match(r"\d{1,2}:\d{2}", time_str)
HasColon(time_str) ==
    \/ /\ Len(time_str) >= 4
       /\ IsDigitChar(time_str[1]) /\ time_str[2] = ":"
       /\ IsDigitChar(time_str[3]) /\ IsDigitChar(time_str[4])
    \/ /\ Len(time_str) >= 5
       /\ IsDigitChar(time_str[1]) /\ IsDigitChar(time_str[2]) /\ time_str[3] = ":"
       /\ IsDigitChar(time_str[4]) /\ IsDigitChar(time_str[5])

\* lines 243-252: the time of day with its colon
WithColon(time_str) ==
    IF HasColon(time_str) THEN time_str
    ELSE IF Len(time_str) = 3 THEN <<time_str[1], ":">> \o SubSeq(time_str, 2, 3)
    ELSE IF Len(time_str) = 4 THEN SubSeq(time_str, 1, 2) \o <<":">> \o SubSeq(time_str, 3, 4)
    ELSE time_str

\* lines 235-254: (max_temp, max_time) of a line of the MAXIMUM shape
ParseMaximumLine(parts) ==
    LET am_pm == IF Upper(parts[4]) \in {<<"A", "M">>, <<"P", "M">>}
                 THEN PyStr(Upper(parts[4])) ELSE PyNone
    IN  [max_temp |-> PyStr(parts[2]),
         max_time |-> IF am_pm # PyNone
                      THEN PyStr(WithColon(parts[3]) \o <<" ">> \o am_pm.s)
                      ELSE PyNone]

NothingParsed == [max_temp |-> PyNone, max_time |-> PyNone]

\* lines 230-256: the for loop over the lines, from line number i. The break of
\* line 256 belongs to `if "MAXIMUM" in line.upper()`, not to the shape test.
RECURSIVE ScanLines(_, _)
ScanLines(lines, i) ==
    IF i > Len(lines) THEN NothingParsed
    ELSE IF MentionsMaximum(lines[i])
         THEN IF MaximumLine(lines[i]) THEN ParseMaximumLine(lines[i])
              ELSE NothingParsed
         ELSE ScanLines(lines, i + 1)

\* fetch_climate_report(city) on a downloaded text; a RequestException gives (None, None)
fetch_climate_report(text, ok) == IF ok THEN ScanLines(text, 1) ELSE NothingParsed

-----------------------------------------------------------------------------
(* Inputs *)

Temps == {70, 71, 72}
TempChars(x) == <<Digits[(x \div 10) + 1], Digits[(x % 10) + 1]>>

\* readings handed to notify_temperature_change
LiveReadings == {PyFloat(x) : x \in Temps} \cup {PyNone, PyStr(<<"M">>)}

\* readings handed to notify_climate_temperature_change
ClimateReadings == {PyStr(TempChars(x)) : x \in Temps} \cup {PyNone, PyStr(<<"M", "M">>)}

\* seconds the clock may advance while send_notification runs
SendWaits == {0, ShortWait}

\* seconds that may pass between two detector invocations
Waits == {ShortWait, LongWait}

-----------------------------------------------------------------------------
(* State *)

Detectors == {"asos", "climate"}

\* before: the city's entry when the detector was entered; prior: the last valid
\* reading passed before this one; at, end: the clock on entry and on exit
NoCall == [name |-> "none", city |-> "", current_temp |-> PyNone, before |-> EmptyEntry,
           prior |-> PyNone, at |-> 0, end |-> 0, sent |-> <<>>, ret |-> EmptyStr,
           raised |-> FALSE]

History(name) ==
    IF name = "asos" THEN temperature_history ELSE climate_temperature_history

Init ==
    /\ now = 0
    /\ temperature_history = EmptyHistory
    /\ climate_temperature_history = EmptyHistory
    /\ call = NoCall
    /\ ncalls = 0
    /\ prevReading = [d \in Detectors |-> [c \in Cities |-> PyNone]]
    /\ stored = [d \in Detectors |-> [c \in Cities |-> {}]]
    /\ lastSent = [d \in Detectors |-> [c \in Cities |-> PyNone]]
    /\ pc = "fetch_all"
    /\ idx = 1
    /\ cycle = 0
    /\ city_temperatures = [c \in Cities |-> PyNone]
    /\ climate_notification = EmptyStr
    /\ report = <<>>
    /\ parsed = NothingParsed

\* the number a detector works with: the reading itself, or int(reading)
ReadingValue(name, current_temp) ==
    IF name = "asos"
    THEN (IF IsIntOrFloat(current_temp) THEN current_temp ELSE PyNone)
    ELSE IntOrError(current_temp)

\* the record of one invocation and the history variables that follow it
Record(name, city, current_temp, r) ==
    LET val == ReadingValue(name, current_temp)
        after == r.history[city]
    IN  /\ call' = [name |-> name, city |-> city, current_temp |-> current_temp,
                    before |-> History(name)[city], prior |-> prevReading[name][city],
                    at |-> now, end |-> r.end,
                    sent |-> r.sent, ret |-> r.ret, raised |-> r.raised]
        /\ ncalls' = ncalls + 1
        /\ now' = r.end
        /\ prevReading' = IF val = PyNone THEN prevReading
                          ELSE [prevReading EXCEPT ![name][city] = val]
        /\ stored' = IF after.temp = PyNone THEN stored
                     ELSE [stored EXCEPT ![name][city] = @ \cup {after.temp.n}]
        /\ lastSent' = IF r.sent = <<>> THEN lastSent
                       ELSE [lastSent EXCEPT ![name][city] = val]

mainVars == <<pc, idx, cycle, city_temperatures, climate_notification>>
parseVars == <<report, parsed>>

-----------------------------------------------------------------------------
(* Spec: the detectors invoked in any order. An exception that leaves a     *)
(* detector ends the run: no caller in the program catches it.              *)

\* delivery and wait describe the run of send_notification: an invocation that
\* does not call it has neither
NoSend(delivery, wait) == delivery = "returns" /\ wait = 0

\* the cities the detectors are invoked for by Spec; MainSpec goes through all
Invoked == {CityOrder[1]}

NotifyTemperatureChange(city, current_temp, delivery, wait) ==
    /\ ncalls < MaxCalls
    /\ ~call.raised
    /\ now + wait <= MaxTime
    /\ LET r == notify_temperature_change(temperature_history, city, current_temp,
                                          now, now + wait, delivery)
       IN  /\ r.sent = <<>> => NoSend(delivery, wait)
           /\ temperature_history' = r.history
           /\ Record("asos", city, current_temp, r)
    /\ UNCHANGED <<climate_temperature_history, mainVars, parseVars>>

NotifyClimateTemperatureChange(city, current_temp, delivery, wait) ==
    /\ ncalls < MaxCalls
    /\ ~call.raised
    /\ now + wait <= MaxTime
    /\ LET r == notify_climate_temperature_change(climate_temperature_history, city,
                                                  current_temp, now, now + wait, delivery)
       IN  /\ r.sent = <<>> => NoSend(delivery, wait)
           /\ climate_temperature_history' = r.history
           /\ Record("climate", city, current_temp, r)
    /\ UNCHANGED <<temperature_history, mainVars, parseVars>>

\* time passes between two invocations
Advance(wait) ==
    /\ ~call.raised
    /\ now + wait <= MaxTime
    /\ now' = now + wait
    /\ UNCHANGED <<temperature_history, climate_temperature_history, call, ncalls,
                   prevReading, stored, lastSent, mainVars, parseVars>>

Next ==
    \/ \E city \in Invoked, current_temp \in LiveReadings,
          delivery \in Deliveries, wait \in SendWaits :
            NotifyTemperatureChange(city, current_temp, delivery, wait)
    \/ \E city \in Invoked, current_temp \in ClimateReadings,
          delivery \in Deliveries, wait \in SendWaits :
            NotifyClimateTemperatureChange(city, current_temp, delivery, wait)
    \/ \E wait \in Waits : Advance(wait)

Spec == Init /\ [][Next]_vars

-----------------------------------------------------------------------------
(* ParseSpec: fetch_climate_report on every report of at most MaxLines lines *)

Tok_AM == <<"A", "M">>
Tok_pm == <<"p", "m">>
Tok_736 == <<"7", "3", "6">>
Tok_1136 == <<"1", "1", "3", "6">>
Tok_144 == <<"1", ":", "4", "4">>

ReportLines == {
    <<MAXIMUM, <<"7", "4">>, Tok_736, Tok_AM>>,
    <<<<"m", "a", "x", "i", "m", "u", "m">>, <<"6", "8">>, Tok_144, Tok_pm>>,
    <<MAXIMUM, <<"8", "1">>, Tok_1136, Tok_AM, <<"R">>>>,
    <<MAXIMUM, <<"7", "0">>, Tok_736, <<"M", "M">>>>,
    <<MAXIMUM, <<"M", "M">>, Tok_736, Tok_AM>>,
    <<MAXIMUM, <<"7", "4">>, Tok_736>>,
    <<<<"H", "I", "G", "H", "E", "S", "T">>, MAXIMUM, <<"9", "9">>, Tok_AM>>,
    <<<<"M", "I", "N", "I", "M", "U", "M">>, <<"5", "0">>, Tok_736, Tok_AM>>
}

Reports == UNION {[1..n -> ReportLines] : n \in 0..MaxLines}

ParseInit ==
    /\ now = 0
    /\ temperature_history = EmptyHistory
    /\ climate_temperature_history = EmptyHistory
    /\ call = NoCall
    /\ ncalls = 0
    /\ prevReading = [d \in Detectors |-> [c \in Cities |-> PyNone]]
    /\ stored = [d \in Detectors |-> [c \in Cities |-> {}]]
    /\ lastSent = [d \in Detectors |-> [c \in Cities |-> PyNone]]
    /\ pc = "request"
    /\ idx = 1
    /\ cycle = 0
    /\ city_temperatures = [c \in Cities |-> PyNone]
    /\ climate_notification = EmptyStr
    /\ report \in Reports
    /\ parsed = NothingParsed

detectorVars == <<now, temperature_history, climate_temperature_history, call, ncalls,
                  prevReading, stored, lastSent>>

\* the request succeeded and the text was scanned
FetchClimateReport ==
    /\ pc = "request"
    /\ parsed' = fetch_climate_report(report, TRUE)
    /\ pc' = "returned"
    /\ UNCHANGED <<detectorVars, idx, cycle, city_temperatures, climate_notification, report>>

\* requests.RequestException
FetchClimateReportFails ==
    /\ pc = "request"
    /\ parsed' = fetch_climate_report(report, FALSE)
    /\ pc' = "failed"
    /\ UNCHANGED <<detectorVars, idx, cycle, city_temperatures, climate_notification, report>>

ParseNext == FetchClimateReport \/ FetchClimateReportFails

ParseSpec == ParseInit /\ [][ParseNext]_vars

-----------------------------------------------------------------------------
(* MainSpec: the polling loop of main *)

\* what fetch_max_temperature returns: a float, or None
MainTemps == {PyNone, PyFloat(70), PyFloat(71)}

\* the climate reports the loop downloads
MainReports == {
    <<<<MAXIMUM, <<"7", "0">>, Tok_736, Tok_AM>>>>,
    <<<<MAXIMUM, <<"7", "1">>, Tok_1136, Tok_AM>>>>
}

\* truth value of a str or None
Truthy(v) == v.t = "str" /\ Len(v.s) > 0

\* lines 367-371: city_temperatures = fetch_all_cities()
MainFetchAll ==
    /\ pc = "fetch_all"
    /\ cycle < MaxCycles
    /\ city_temperatures' \in [Cities -> MainTemps]
    /\ idx' = 1
    /\ pc' = "climate"
    /\ UNCHANGED <<detectorVars, cycle, climate_notification, parseVars>>

\* lines 379-384: the climate report of the city and its detector
MainClimate(text, ok, delivery, wait) ==
    /\ pc = "climate"
    /\ now + wait <= MaxTime
    /\ LET city == CityOrder[idx]
           got == fetch_climate_report(text, ok)
       IN  /\ report' = text
           /\ parsed' = got
           /\ IF Truthy(got.max_temp) /\ Truthy(got.max_time)
              THEN LET r == notify_climate_temperature_change(
                                climate_temperature_history, city, got.max_temp,
                                now, now + wait, delivery)
                   IN  /\ r.sent = <<>> => NoSend(delivery, wait)
                       /\ climate_temperature_history' = r.history
                       /\ Record("climate", city, got.max_temp, r)
                       /\ climate_notification' = r.ret
                       /\ pc' = IF r.raised THEN "exited" ELSE "asos"
              ELSE /\ NoSend(delivery, wait)
                   /\ climate_notification' = EmptyStr
                   /\ pc' = "asos"
                   /\ UNCHANGED <<climate_temperature_history, call, ncalls, now,
                                  prevReading, stored, lastSent>>
    /\ UNCHANGED <<temperature_history, idx, cycle, city_temperatures>>

\* lines 387-396: the ASOS detector of the city, the printed line, the next city
MainAsos(delivery, wait) ==
    /\ pc = "asos"
    /\ now + wait <= MaxTime
    /\ LET city == CityOrder[idx]
           temp == city_temperatures[city]
           more == idx < Len(CityOrder)
       IN  IF IsIntOrFloat(temp)
           THEN LET r == notify_temperature_change(temperature_history, city, temp,
                                                   now, now + wait, delivery)
                IN  /\ r.sent = <<>> => NoSend(delivery, wait)
                    /\ temperature_history' = r.history
                    /\ Record("asos", city, temp, r)
                    /\ pc' = IF r.raised THEN "exited" ELSE IF more THEN "climate" ELSE "sleep"
                    /\ idx' = IF ~r.raised /\ more THEN idx + 1 ELSE idx
           ELSE /\ NoSend(delivery, wait)
                /\ pc' = IF more THEN "climate" ELSE "sleep"
                /\ idx' = IF more THEN idx + 1 ELSE idx
                /\ UNCHANGED <<temperature_history, call, ncalls, now,
                               prevReading, stored, lastSent>>
    /\ UNCHANGED <<climate_temperature_history, cycle, city_temperatures,
                   climate_notification, parseVars>>

\* lines 398-399: time.sleep(30), then the next cycle
MainSleep ==
    /\ pc = "sleep"
    /\ now' = now + SleepSeconds
    /\ cycle' = cycle + 1
    /\ pc' = "fetch_all"
    /\ UNCHANGED <<temperature_history, climate_temperature_history, call, ncalls,
                   prevReading, stored, lastSent, idx, city_temperatures,
                   climate_notification, parseVars>>

MainNext ==
    \/ MainFetchAll
    \/ \E text \in MainReports, ok \in BOOLEAN, delivery \in Deliveries, wait \in SendWaits :
            MainClimate(text, ok, delivery, wait)
    \/ \E delivery \in Deliveries, wait \in SendWaits : MainAsos(delivery, wait)
    \/ MainSleep

MainSpec == Init /\ [][MainNext]_vars

-----------------------------------------------------------------------------
(* The claims. They are stated on `call`, the record of the last detector   *)
(* invocation, and on the dictionaries as that invocation left them.        *)

Called == call.name # "none"

\* the reading of the last invocation as a number, PyNone when it is none
CallValue ==
    IF call.name = "asos"
    THEN (IF call.current_temp.t \in {"int", "float"} THEN call.current_temp ELSE PyNone)
    ELSE IF call.current_temp.t = "str" /\ IsDigit(call.current_temp.s)
         THEN PyInt(DecimalValue(call.current_temp.s))
         ELSE PyNone

ValidCall == Called /\ CallValue # PyNone
InvalidCall == Called /\ CallValue = PyNone

\* the entry of the invoked city as the invocation left it
After == History(call.name)[call.city]

\* the reading is strictly greater than the stored previous value
Rose == call.before.temp # PyNone /\ CallValue.n > call.before.temp.n

\* now minus the stored timestamp, on entry
Elapsed == call.at - call.before.timestamp.n

SameNumber(a, b) == a.t \in {"int", "float"} /\ b.t \in {"int", "float"} /\ a.n = b.n

NothingSent == call.sent = <<>>
OneSent == Len(call.sent) = 1

\* C1: after an invocation with a valid reading that returned, the city's entry
\* holds that reading as temp and the time of the invocation as timestamp,
\* whether or not a notification was sent.
C1_HistoryReflectsReading ==
    (ValidCall /\ ~call.raised) =>
        /\ SameNumber(After.temp, CallValue)
        /\ After.timestamp.t = "datetime"
        /\ After.timestamp.n >= call.at
        /\ After.timestamp.n <= call.end

\* C2: a valid reading that is not strictly greater than the valid reading passed
\* just before it for the same city sends no notification and returns the empty
\* annotation.
C2_NoRiseNoNotification ==
    (ValidCall /\ call.prior # PyNone /\ CallValue.n <= call.prior.n) =>
        NothingSent /\ call.ret = EmptyStr

\* C3 as stated: in the ASOS detector a rising reading inside the window that is
\* not the last notified value sends exactly one notification, and an invocation
\* that reports the already notified value again inside the window returns a
\* non-empty annotation and sends nothing.
C3_Original ==
    (ValidCall /\ call.name = "asos") =>
        /\ (Rose /\ Elapsed <= Window /\ ~SameNumber(CallValue, call.before.last_notified_temp))
              => OneSent
        /\ (SameNumber(CallValue, call.before.last_notified_temp)
                /\ call.before.timestamp # PyNone /\ Elapsed <= Window)
              => (NothingSent /\ call.ret # EmptyStr)

\* C3 amended: in the ASOS detector a rising reading inside the window that is
\* not the last notified value sends exactly one notification; an invocation that
\* reports the last notified value again sends nothing, and its annotation is
\* non-empty exactly when the reading is again strictly greater than the stored
\* previous value inside the window.
C3_OnceThenAnnotateOnRise ==
    (ValidCall /\ call.name = "asos") =>
        /\ (Rose /\ Elapsed <= Window /\ ~SameNumber(CallValue, call.before.last_notified_temp))
              => OneSent
        /\ SameNumber(CallValue, call.before.last_notified_temp)
              => /\ NothingSent
                 /\ (call.ret # EmptyStr) <=> (Rose /\ Elapsed <= Window)

\* C3 witness: the ASOS detector saw the last notified value again after a lower
\* stored reading: the annotation is there, no notification is.
C3_Witness ==
    /\ ValidCall /\ call.name = "asos"
    /\ SameNumber(CallValue, call.before.last_notified_temp)
    /\ Rose /\ Elapsed <= Window
    /\ NothingSent /\ call.ret # EmptyStr

\* the scenario of C4: last_notified_temp is V, the stored value is a later
\* reading below V, and the reading rises to V again inside the window
BackToNotified ==
    /\ ValidCall
    /\ SameNumber(CallValue, call.before.last_notified_temp)
    /\ SameNumber(call.prior, call.before.temp)
    /\ Rose /\ Elapsed <= Window

\* C4 as stated: a reading that returns to the last notified value V from a lower
\* stored reading inside the window sends a new notification.
C4_Original == BackToNotified => ~NothingSent

\* C4 amended: a reading that rises inside the window to the value held by
\* last_notified_temp sends no notification; the ASOS detector returns its
\* non-empty annotation, the climate detector the empty one, and the reading is
\* stored.
C4_NoRenotificationOfSameValue ==
    (ValidCall /\ SameNumber(CallValue, call.before.last_notified_temp)
        /\ Rose /\ Elapsed <= Window) =>
        /\ NothingSent /\ ~call.raised
        /\ (call.name = "asos") => (call.ret # EmptyStr)
        /\ (call.name = "climate") => (call.ret = EmptyStr)
        /\ SameNumber(After.temp, CallValue)
        /\ After.last_notified_temp = call.before.last_notified_temp

\* C4 witness: the value dropped below the notified V, was stored, and came back
\* to V inside the window without a notification.
C4_Witness ==
    /\ BackToNotified
    /\ call.before.temp.n < call.before.last_notified_temp.n
    /\ NothingSent

\* C5: a valid reading strictly greater than the stored value whose exact elapsed
\* time exceeds the window sends nothing, returns the empty annotation, leaves
\* last_notified_temp alone and stores the reading and the time.
C5_OutsideWindow ==
    (ValidCall /\ Rose /\ Elapsed > Window) =>
        /\ NothingSent /\ ~call.raised
        /\ call.ret = EmptyStr
        /\ After.last_notified_temp = call.before.last_notified_temp
        /\ SameNumber(After.temp, CallValue)
        /\ After.timestamp = datetime(call.at)

\* C5 witness: a rise seen after more than the window but less than six whole
\* minutes, so the truncated minutes alone would have let it through.
C5_Witness ==
    /\ ValidCall /\ Rose /\ Elapsed > Window
    /\ Elapsed \div SecondsPerMinute = WindowMinutes
    /\ SameNumber(After.temp, CallValue)

\* C6: an invocation with an absent or non-numeric reading returns the empty
\* annotation, sends nothing and changes no entry of either dictionary.
C6_InvalidReadingIsNoOp ==
    [][(ncalls' # ncalls /\ InvalidCall') =>
          /\ call'.ret = EmptyStr /\ call'.sent = <<>> /\ ~call'.raised
          /\ temperature_history' = temperature_history
          /\ climate_temperature_history' = climate_temperature_history]_vars

\* C6 witness: an invalid reading arrived when the city already had a stored
\* temperature and a notified value.
C6_Witness ==
    /\ InvalidCall
    /\ call.before.temp # PyNone
    /\ call.before.last_notified_temp # PyNone
    /\ After = call.before

\* C7: a last_notified_temp that is present is a value that was stored as the
\* entry's temp now or earlier.
C7_NotifiedWasStored ==
    \A d \in Detectors, c \in Cities :
        History(d)[c].last_notified_temp # PyNone =>
            History(d)[c].last_notified_temp.n \in stored[d][c]

\* C8: an error raised by the platform call of send_notification never leaves the
\* detector and never ends the loop of main.
C8_DeliveryFailureContained == ~call.raised /\ pc # "exited"

\* the first line of the MAXIMUM shape, parsed; nothing when there is none
RECURSIVE FirstMaximumLine(_, _)
FirstMaximumLine(lines, i) ==
    IF i > Len(lines) THEN NothingParsed
    ELSE IF MaximumLine(lines[i]) THEN ParseMaximumLine(lines[i])
    ELSE FirstMaximumLine(lines, i + 1)

\* C9: fetch_climate_report returns what the first line of the MAXIMUM shape
\* holds; earlier lines of another shape neither end the scan nor change the result.
C9_FirstMatchingLine == pc = "returned" => parsed = FirstMaximumLine(report, 1)

\* C10: as long as send_notification returns, last_notified_temp is the value of
\* the last notification sent for the entry (None when there was none), and a
\* notification is sent only for a value other than the one sent last.
C10_NotifiedIsLastSent ==
    /\ [](~call.raised =>
            \A d \in Detectors, c \in Cities :
                History(d)[c].last_notified_temp = lastSent[d][c])
    /\ [][(ncalls' # ncalls /\ call'.sent # <<>>) =>
            /\ ~SameNumber(CallValue', call'.before.last_notified_temp)
            /\ ~SameNumber(CallValue', lastSent[call'.name][call'.city])]_vars

\* C10 witness: a second notification for the same entry, with another value.
C10_Witness ==
    /\ ValidCall /\ ~call.raised /\ call.sent # <<>>
    /\ call.before.last_notified_temp # PyNone
    /\ After.last_notified_temp = lastSent[call.name][call.city]

====
